---- MODULE Spec2Model ----
(***************************************************************************)
(* grun: run a Go source file through a build cache.                       *)
(*                                                                         *)
(* The model follows src/main.go.  One invocation of main is a process     *)
(* that walks through the steps of main(); the file system (the source     *)
(* file, go.mod, go.sum, the cached binary, the cache directory, the       *)
(* temporary directory) persists across invocations and is also changed    *)
(* by the environment (an editor, touch, rm) at any moment, between the    *)
(* steps of an invocation included.  File times are stamps of a coarse     *)
(* monotonic clock, so two writes may carry the same time.                 *)
(***************************************************************************)
EXTENDS Integers, Sequences, FiniteSets, TLC

(***************************************************************************)
(* Bounds of the model.                                                    *)
(***************************************************************************)
MaxTime == 2
MaxTmp == 2
MaxCalls == 2
MaxArgs == 3
MaxLen == 4

(***************************************************************************)
(* Values.                                                                 *)
(***************************************************************************)
\* what os.Stat can answer for a path
FileStates == {"absent", "ok", "error"}

\* source texts: bytes of the file; "p" stands for a byte of Go code
SourceTexts == { <<"p", "\n", "p">>, <<"#", "!", "g", "\n", "p">> }

\* the bytes of the source files whose first line is studied
Bytes == {"#", "!", "\n", "p"}

\* the results of getCacheDir: an absolute directory, or the relative one
CacheDirs == {"/home/u/.cache/grun", ".cache/grun"}

defaultCacheDir == ".cache/grun"

\* values of --cache-dir and of GRUN_CACHE; "": not set
FlagValues == {"", "/f", "f", ".cache/grun"}
EnvValues == {"", "/e", "e", "/f"}

\* what os.UserHomeDir gives; "": an error ($HOME is not defined)
HomeDirs == {"", "/home/u", "/root", "/"}

\* the working directory of the invoking process
Cwds == {"srcdir", "elsewhere"}

\* command lines after flag parsing: flag.Args()
ArgLists == { <<>>, <<"script.go", "fail">> }

\* exit codes of the spawned binary
ExitCodes == {0, 1, 7}

NoFile == [st |-> "absent", mtime |-> 0]
NoCmd == [file |-> "", dir |-> "", explicit |-> FALSE]
NoErr == [kind |-> "nil", hint |-> FALSE]
NoTmp == 0
\* no temporary file written by createTempFileWithoutShebang
NoTmpFile == [made |-> FALSE, dir |-> <<>>, data |-> <<>>]
\* names os.CreateTemp can give to grun_<base>_*.go
TmpNames == 1..MaxTmp
NotExited == -1

\* file names, as bytes
Dot == <<".">>
DotDot == <<".", ".">>
NameD == <<"d">>
NameW == <<"w">>
NameGo == <<"s", ".", "g", "o">>
NameSh == <<"s", ".", "s", "h">>
NameBare == <<"s">>

NameTmp == <<"t", "m", "p">>

\* the directory of the source file, as an absolute path: /w
SourceDir == <<NameW>>

\* values of $TMPDIR: not set, the source's directory, a directory below it
TmpDirValues == { <<>>, <<NameW>>, <<NameW, NameD>> }

\* working directories as absolute paths: /w and /w/d
CwdPaths == { <<NameW>>, <<NameW, NameD>> }

\* spellings of a source file argument: a path is the sequence of its
\* elements, rooted when it starts with a separator
Spellings ==
    { [rooted |-> FALSE, elems |-> e] :
        e \in { <<NameGo>>, <<Dot, NameGo>>, <<NameD, DotDot, NameGo>>,
                <<NameGo, Dot>>, <<NameD, NameGo>>, <<DotDot, NameGo>>,
                <<NameSh>>, <<NameBare>> } }
    \cup { [rooted |-> TRUE, elems |-> e] :
             e \in { <<NameW, NameGo>>, <<NameW, NameD, NameGo>> } }

\* hex.EncodeToString of a SHA-256 digest has 64 digits, of which
\* getCachedBinaryPath keeps 16
HexLen == 64
HashStrLen == 16

\* digests: all digits of the kept part are a, all of the rest are b
Digests ==
    { [i \in 1..HexLen |-> IF i <= HashStrLen THEN a ELSE b] :
        a \in {"0", "f"}, b \in {"0", "f"} }

\* words of a command line: the flag with its value to follow, the flag
\* with its value, the end of the flags, a flag grun does not define, and
\* words that do not start with a dash
FlagNames == {"--cache-dir"}
FlagsWithValue == {"--cache-dir=c"}
Terminator == "--"
UnknownFlags == {"-v"}
PlainWords == {"s.go", "a"}
Words == FlagNames \cup FlagsWithValue \cup {Terminator} \cup UnknownFlags \cup PlainWords

RECURSIVE SeqsUpTo(_, _)
\* the sequences of at most n elements of S
SeqsUpTo(S, n) ==
    IF n = 0 THEN { <<>> }
    ELSE LET shorter == SeqsUpTo(S, n - 1)
         IN  shorter \cup { Append(t, x) : t \in shorter, x \in S }

\* two invocations of grun that run at the same time, and none
Procs == {"p", "q"}
NoProc == "none"
NoProcs == [x \in {} |-> [pc |-> "start", needsCompile |-> FALSE]]

\* the empty function
NoSums == [x \in {} |-> <<>>]

VARIABLES
    clock,          \* the file system's clock
    src,            \* the source file: [st, mtime, data]
    gomod,          \* <dir of source>/go.mod: [st, mtime]
    gosum,          \* <dir of source>/go.sum: [st, mtime]
    bin,            \* the file at the cached binary path, as main resolves it
    altBin,         \* a binary written at the same relative path under the source's directory
    cacheDirExists, \* the cache directory exists
    tmpFiles,       \* the grun_*.go files in the system temp directory
    cacheDir,       \* getCacheDir() of the invocations
    cwd,            \* working directory of the invocations
    pc,             \* where main is
    argv,           \* flag.Args()
    needsCompile,   \* main's needsCompile
    hasGoMod,       \* compileGoFile's hasGoMod
    tmpPath,        \* compileGoFile's temp file (NoTmp: none)
    cmd,            \* the go build command of compileGoFile
    buildErr,       \* the error compileGoFile returned
    spawnArgs,      \* the arguments the binary was spawned with
    childExit,      \* exit code of the spawned binary
    exitCode,       \* exit code of the invocation (NotExited: running)
    stderr,         \* messages main wrote to the error stream
    steps,          \* the calls main has made in this invocation, in order
    built,          \* a build has succeeded
    changed,        \* what the environment changed since the last successful build
    sum256,         \* the SHA-256 digests computed so far: absolute path -> digest
    keys,           \* the calls of getCachedBinaryPath made so far, with their results
    flagCacheDir,   \* *cacheDir, the value of the --cache-dir flag
    envCache,       \* the environment variable GRUN_CACHE
    homeDir,        \* os.UserHomeDir(): the directory, or "" for its error
    procs,          \* concurrent invocations for one source: [pc, needsCompile] of each
    binWriter,      \* the invocation whose build wrote the cached binary (NoProc: none)
    osArgs,         \* os.Args[1:], the command line as the user wrote it
    envTmpDir,      \* the environment variable TMPDIR, a path; <<>>: not set
    other,          \* another file of the source's directory: [st, mtime]
    tmpWritten      \* the temp file of compileGoFile: [made, dir, data]

fsVars == <<clock, src, gomod, gosum, bin, altBin, cacheDirExists, tmpFiles>>
\* the state of the functions that are studied on their own
keyVars == <<sum256, keys, flagCacheDir, envCache, homeDir, procs, binWriter,
             osArgs>>
\* the surroundings of the source file and of the temp file
dirVars == <<envTmpDir, other, tmpWritten>>
unitVars == <<keyVars, dirVars>>
cfgVars == <<cacheDir, cwd, unitVars>>
procVars == <<pc, argv, needsCompile, hasGoMod, tmpPath, cmd, buildErr,
              spawnArgs, childExit, exitCode, stderr, steps>>
histVars == <<built, changed>>
vars == <<fsVars, cfgVars, procVars, histVars>>

(***************************************************************************)
(* Library functions, as main.go uses them.                                *)
(***************************************************************************)
\* os.Stat: the error and, when there is none, the modification time
Stat(f) ==
    CASE f.st = "ok" -> [err |-> "nil", mtime |-> f.mtime]
      [] f.st = "absent" -> [err |-> "ENOENT", mtime |-> 0]
      [] OTHER -> [err |-> "EACCES", mtime |-> 0]

\* a test that takes every file for an existing one
NeverNotExist(e) == FALSE

IsNotExist(e) == e = "ENOENT"

\* a comparison that misses a difference of one tick
AfterByTwo(t, u) == t > u + 1

\* a comparison that takes equal times for later
AfterOrEqual(t, u) == t >= u

\* time.Time.After
After(t, u) == t > u

\* filepath.IsAbs on the cache directories of the model
IsAbs(d) ==
    d \in {"/home/u/.cache/grun", "/root/.cache/grun", "/.cache/grun", "/f", "/e"}

\* filepath.Join(homeDir, defaultCacheDir)
JoinDefault(home) ==
    CASE home = "/home/u" -> "/home/u/.cache/grun"
      [] home = "/root" -> "/root/.cache/grun"
      [] home = "/" -> "/.cache/grun"

RECURSIVE CleanFrom(_, _, _)
\* filepath.Clean, element by element: "." is dropped, ".." removes the
\* element before it, is dropped at the root and kept at the start of a
\* relative path
CleanFrom(elems, out, rooted) ==
    IF elems = <<>> THEN out
    ELSE LET e == Head(elems)
             next == IF e = Dot THEN out
                     ELSE IF e = DotDot
                          THEN IF out # <<>> /\ out[Len(out)] # DotDot
                               THEN SubSeq(out, 1, Len(out) - 1)
                               ELSE IF rooted THEN out ELSE Append(out, DotDot)
                          ELSE Append(out, e)
         IN  CleanFrom(Tail(elems), next, rooted)

\* filepath.Abs(path) in the working directory wd: the elements of the
\* absolute path
Abs(wd, path) ==
    IF path.rooted THEN CleanFrom(path.elems, <<>>, TRUE)
    ELSE CleanFrom(wd \o path.elems, <<>>, TRUE)

\* filepath.Base: the last element of the path as it is written
Base(path) ==
    IF path.elems = <<>> THEN (IF path.rooted THEN <<"/">> ELSE Dot)
    ELSE path.elems[Len(path.elems)]

\* filepath.Ext: the suffix of the name from its last dot on
Ext(name) ==
    LET dots == {i \in 1..Len(name) : name[i] = "."}
    IN  IF dots = {} THEN <<>>
        ELSE SubSeq(name, CHOOSE i \in dots : \A j \in dots : j <= i, Len(name))

\* os.TempDir: $TMPDIR, or /tmp when it is not set
TempDir(tmpdir) == IF tmpdir = <<>> THEN <<NameTmp>> ELSE tmpdir

\* a temp file made next to the source file
CreateTempInSourceDir(dir, tmpdir) == SourceDir

\* the directory in which os.CreateTemp(dir, pattern) makes the file
CreateTempDir(dir, tmpdir) == IF dir = <<>> THEN TempDir(tmpdir) ELSE dir

(***************************************************************************)
(* Pure functions of main.go.                                              *)
(***************************************************************************)
RECURSIVE IndexOf(_, _, _)
\* strings.Index(s, b) for a one-byte b, 1-based from position i; 0: not found
IndexOf(s, b, i) ==
    IF i > Len(s) THEN 0
    ELSE IF s[i] = b THEN i
    ELSE IndexOf(s, b, i + 1)

\* file.Read(header) into a two-byte buffer: the bytes read and whether it was io.EOF
ReadHeader(data) ==
    IF Len(data) = 0 THEN [eof |-> TRUE, header |-> <<"NUL", "NUL">>]
    ELSE IF Len(data) = 1 THEN [eof |-> FALSE, header |-> <<data[1], "NUL">>]
    ELSE [eof |-> FALSE, header |-> <<data[1], data[2]>>]

\* a test of the first byte alone
HasShebangFirstByte(data) == data # <<>> /\ data[1] = "#"

\* hasShebang on a file that can be opened
HasShebang(data) ==
    LET r == ReadHeader(data)
    IN  IF r.eof THEN FALSE
        ELSE r.header[1] = "#" /\ r.header[2] = "!"

\* a copy from which every line that ends is removed
StripToLastNewline(data) ==
    LET ends == {k \in 1..Len(data) : data[k] = "\n"}
    IN  IF ends = {} THEN data
        ELSE SubSeq(data, (CHOOSE k \in ends : \A j \in ends : j <= k) + 1, Len(data))

\* the text createTempFileWithoutShebang writes to the temporary file
StripShebang(data) ==
    LET idx == IndexOf(data, "\n", 1)
    IN  IF idx # 0 THEN SubSeq(data, idx + 1, Len(data)) ELSE data

\* a check of the source's time alone, go.mod and go.sum not consulted
NeedsRecompileSourceOnly(binF, srcF, modF, sumF, absOK) ==
    LET cachedInfo == Stat(binF)
        sourceInfo == Stat(srcF)
    IN  IF cachedInfo.err # "nil" THEN [stale |-> TRUE, err |-> cachedInfo.err]
        ELSE IF sourceInfo.err # "nil" THEN [stale |-> TRUE, err |-> sourceInfo.err]
        ELSE IF ~absOK THEN [stale |-> TRUE, err |-> "abs"]
        ELSE [stale |-> sourceInfo.mtime > cachedInfo.mtime, err |-> "nil"]

\* needsRecompile from its second os.Stat of the cached binary on:
\* [stale, err]; absOK: filepath.Abs(sourceFile) succeeds
NeedsRecompileTimes(binF, srcF, modF, sumF, absOK) ==
    LET cachedInfo == Stat(binF)
        sourceInfo == Stat(srcF)
        modInfo == Stat(modF)
        sumInfo == Stat(sumF)
        cachedTime == cachedInfo.mtime
    IN  IF cachedInfo.err # "nil" THEN [stale |-> TRUE, err |-> cachedInfo.err]
        ELSE IF sourceInfo.err # "nil" THEN [stale |-> TRUE, err |-> sourceInfo.err]
        ELSE IF After(sourceInfo.mtime, cachedTime) THEN [stale |-> TRUE, err |-> "nil"]
        ELSE IF ~absOK THEN [stale |-> TRUE, err |-> "abs"]
        ELSE IF modInfo.err = "nil" /\ After(modInfo.mtime, cachedTime)
             THEN [stale |-> TRUE, err |-> "nil"]
        ELSE IF sumInfo.err = "nil" /\ After(sumInfo.mtime, cachedTime)
             THEN [stale |-> TRUE, err |-> "nil"]
        ELSE [stale |-> FALSE, err |-> "nil"]

\* a module build that always builds the package of the directory
BuildCommandPackage(hasShebangLine, goModFound, fileToCompile) ==
    IF goModFound
    THEN [file |-> "", dir |-> "srcdir", explicit |-> FALSE]
    ELSE [file |-> fileToCompile, dir |-> "", explicit |-> TRUE]

\* a module build as soon as go.sum is there, with or without go.mod
BuildCommandModuleBySum(hasShebangLine, goModFound, fileToCompile) ==
    IF goModFound \/ gosum.st = "ok"
    THEN IF hasShebangLine
         THEN [file |-> fileToCompile, dir |-> "srcdir", explicit |-> TRUE]
         ELSE [file |-> "", dir |-> "srcdir", explicit |-> FALSE]
    ELSE [file |-> fileToCompile, dir |-> "", explicit |-> TRUE]

\* the exec.Command compileGoFile builds: the file argument ("" when none is
\* given and the package of the directory is built) and cmd.Dir ("": inherited)
BuildCommand(hasShebangLine, goModFound, fileToCompile) ==
    IF goModFound
    THEN IF hasShebangLine
         THEN [file |-> fileToCompile, dir |-> "srcdir", explicit |-> TRUE]
         ELSE [file |-> "", dir |-> "srcdir", explicit |-> FALSE]
    ELSE [file |-> fileToCompile, dir |-> "", explicit |-> TRUE]

\* the hint given on every failure
BuildResultHintAlways(runOK, goModFound) ==
    IF ~runOK THEN [kind |-> "build", hint |-> TRUE]
    ELSE [kind |-> "nil", hint |-> FALSE]

\* the error compileGoFile returns for the outcome of cmd.Run
BuildResult(runOK, goModFound) ==
    IF ~runOK /\ ~goModFound THEN [kind |-> "build", hint |-> TRUE]
    ELSE IF ~runOK THEN [kind |-> "build", hint |-> FALSE]
    ELSE NoErr

\* the value a flag written with its value carries
ValueOf(word) == IF word = "--cache-dir=c" THEN "c" ELSE ""

RECURSIVE FlagParseKeepingTerminator(_, _)
\* a parse that leaves the "--" among the arguments
FlagParseKeepingTerminator(args, value) ==
    IF args = <<>> THEN [err |-> "", cacheDir |-> value, args |-> <<>>]
    ELSE LET word == Head(args)
         IN  IF word \in PlainWords \/ word = Terminator
             THEN [err |-> "", cacheDir |-> value, args |-> args]
             ELSE IF word \in UnknownFlags
             THEN [err |-> "flag provided but not defined", cacheDir |-> value,
                   args |-> Tail(args)]
             ELSE IF word \in FlagsWithValue
             THEN FlagParseKeepingTerminator(Tail(args), ValueOf(word))
             ELSE IF Len(args) >= 2
             THEN FlagParseKeepingTerminator(Tail(Tail(args)), args[2])
             ELSE [err |-> "flag needs an argument", cacheDir |-> value,
                   args |-> <<>>]

RECURSIVE FlagParse(_, _)
\* flag.Parse of the command line args, the flag's value being value so
\* far: flags are read up to the first word that is not one or to "--",
\* which is dropped; [err, cacheDir, args], args being flag.Args()
FlagParse(args, value) ==
    IF args = <<>> THEN [err |-> "", cacheDir |-> value, args |-> <<>>]
    ELSE LET word == Head(args)
         IN  IF word \in PlainWords
             THEN [err |-> "", cacheDir |-> value, args |-> args]
             ELSE IF word = Terminator
             THEN [err |-> "", cacheDir |-> value, args |-> Tail(args)]
             ELSE IF word \in UnknownFlags
             THEN [err |-> "flag provided but not defined", cacheDir |-> value,
                   args |-> Tail(args)]
             ELSE IF word \in FlagsWithValue
             THEN FlagParse(Tail(args), ValueOf(word))
             ELSE IF Len(args) >= 2
             THEN FlagParse(Tail(Tail(args)), args[2])
             ELSE [err |-> "flag needs an argument", cacheDir |-> value,
                   args |-> <<>>]

\* a getCacheDir that asks the environment before the flag
GetCacheDirEnvFirst(flagValue, envValue, home) ==
    IF envValue # "" THEN envValue
    ELSE IF flagValue # "" THEN flagValue
    ELSE IF home = "" THEN defaultCacheDir
    ELSE JoinDefault(home)

\* getCacheDir
GetCacheDir(flagValue, envValue, home) ==
    IF flagValue # "" THEN flagValue
    ELSE IF envValue # "" THEN envValue
    ELSE IF home = "" THEN defaultCacheDir
    ELSE JoinDefault(home)

\* a cache path that carries the whole digest
CachedBinaryPathWholeDigest(sourceFile, digest, dir) ==
    LET base == Base(sourceFile)
    IN  [dir |-> dir,
         name |-> (IF Ext(base) = <<".", "g", "o">>
                   THEN SubSeq(base, 1, Len(base) - 3) ELSE base)
                  \o <<"-">> \o digest]

\* a cache path made of the stripped base name alone
CachedBinaryPathByName(sourceFile, digest, dir) ==
    LET base == Base(sourceFile)
    IN  [dir |-> dir,
         name |-> IF Ext(base) = <<".", "g", "o">>
                  THEN SubSeq(base, 1, Len(base) - 3) ELSE base]

\* getCachedBinaryPath for the argument sourceFile, given the digest of
\* its absolute path and the cache directory
CachedBinaryPath(sourceFile, digest, dir) ==
    LET hashStr == SubSeq(digest, 1, HashStrLen)
        base == Base(sourceFile)
        ext == Ext(base)
        binaryName == IF ext = <<".", "g", "o">>
                      THEN SubSeq(base, 1, Len(base) - Len(ext))
                      ELSE base
    IN  [dir |-> dir, name |-> binaryName \o <<"-">> \o hashStr]

\* where go build -o <cachedBinary> puts the binary: the go tool resolves a
\* relative output path against its own working directory, cmd.Dir
OutputAtCachePath(c) ==
    IsAbs(cacheDir) \/ c.dir = "" \/ cwd = "srcdir"

\* cmd.Run of runBinary for a binary that was spawned and exited with code c
RunResult(c) ==
    IF c = 0 THEN [kind |-> "nil", code |-> 0]
    ELSE [kind |-> "ExitError", code |-> c]

\* every error of runBinary taken for an internal one
ExitOneFor(err) ==
    IF err.kind = "nil" THEN 0 ELSE 1

\* the exit code of main for the error runBinary returned
ExitFor(err) ==
    IF err.kind = "nil" THEN 0
    ELSE IF err.kind = "ExitError" THEN err.code
    ELSE 1

\* a main that exits on every error of runBinary without a message
ReportsNoRunError(err) == FALSE

\* whether main writes "Error running binary" for the error runBinary returned
ReportsRunError(err) ==
    err.kind # "nil" /\ err.kind # "ExitError"

(***************************************************************************)
(* Initial state: an empty cache, the clock at 0, the files as the user    *)
(* left them.                                                              *)
(***************************************************************************)
\* the default temp directory, a source directory with no other file, and
\* no temp file written
DirIdle ==
    /\ envTmpDir = <<>>
    /\ other = NoFile
    /\ tmpWritten = NoTmpFile

\* no digest computed, no call made, the cache directory that of Init
KeyIdle ==
    /\ sum256 = NoSums
    /\ keys = {}
    /\ flagCacheDir = ""
    /\ envCache = ""
    /\ homeDir = (IF cacheDir = defaultCacheDir THEN "" ELSE "/home/u")
    /\ procs = NoProcs
    /\ binWriter = NoProc
    /\ osArgs = <<>>

\* nothing computed yet by the functions studied on their own
UnitIdle == DirIdle /\ KeyIdle

Init ==
    /\ clock = 0
    /\ src \in {[st |-> "ok", mtime |-> 0, data |-> d] : d \in SourceTexts}
               \cup {[st |-> "absent", mtime |-> 0, data |-> <<>>]}
    /\ gomod \in {[st |-> s, mtime |-> 0] : s \in FileStates}
    /\ gosum \in {[st |-> s, mtime |-> 0] : s \in FileStates}
    /\ bin = NoFile
    /\ altBin = FALSE
    /\ cacheDirExists = FALSE
    /\ tmpFiles = {}
    /\ cacheDir \in CacheDirs
    /\ cwd \in Cwds
    /\ pc = "idle"
    /\ argv = <<>>
    /\ needsCompile = FALSE
    /\ hasGoMod = FALSE
    /\ tmpPath = NoTmp
    /\ cmd = NoCmd
    /\ buildErr = NoErr
    /\ spawnArgs = <<>>
    /\ childExit = NotExited
    /\ exitCode = NotExited
    /\ stderr = <<>>
    /\ steps = <<>>
    /\ built = FALSE
    /\ changed = {}
    /\ UnitIdle

(***************************************************************************)
(* main.                                                                   *)
(***************************************************************************)
\* an error that is reported without ending the process
FailAndGoOn(msg) ==
    /\ stderr' = Append(stderr, msg)
    /\ exitCode' = 1
    /\ pc' = pc

\* fmt.Fprintf(os.Stderr, ...); os.Exit(1)
Fail(msg) ==
    /\ stderr' = Append(stderr, msg)
    /\ exitCode' = 1
    /\ pc' = "exited"

\* a new process: flag.Parse and the check of flag.NArg
Start(args) ==
    /\ pc = "idle"
    /\ argv' = args
    /\ IF Len(args) = 0
       THEN Fail("usage")
       ELSE /\ pc' = "parsed"
            /\ UNCHANGED <<stderr, exitCode>>
    /\ UNCHANGED <<fsVars, cfgVars, histVars, needsCompile, hasGoMod, tmpPath,
                   cmd, buildErr, spawnArgs, childExit, steps>>

\* the process is gone, and its memory with it
Gone ==
    /\ pc = "exited"
    /\ pc' = "idle"
    /\ argv' = <<>>
    /\ needsCompile' = FALSE
    /\ hasGoMod' = FALSE
    /\ tmpPath' = NoTmp
    /\ cmd' = NoCmd
    /\ buildErr' = NoErr
    /\ spawnArgs' = <<>>
    /\ childExit' = NotExited
    /\ exitCode' = NotExited
    /\ stderr' = <<>>
    /\ steps' = <<>>
    /\ UNCHANGED <<fsVars, cfgVars, histVars>>

\* os.Stat(sourceFile); os.IsNotExist(err)
CheckSource ==
    /\ pc = "parsed"
    /\ IF IsNotExist(Stat(src).err)
       THEN Fail("does not exist")
       ELSE /\ pc' = "sourceChecked"
            /\ UNCHANGED <<stderr, exitCode>>
    /\ UNCHANGED <<fsVars, cfgVars, histVars, argv, needsCompile, hasGoMod,
                   tmpPath, cmd, buildErr, spawnArgs, childExit, steps>>

\* an ensureCacheDir with os.Mkdir, which fails on a directory that exists
EnsureCacheDirByMkdir(mkdirOK) ==
    /\ pc = "sourceChecked"
    /\ steps' = Append(steps, "ensureCacheDir")
    /\ IF ~cacheDirExists /\ mkdirOK
       THEN /\ cacheDirExists' = TRUE
            /\ pc' = "cacheDirEnsured"
            /\ UNCHANGED <<stderr, exitCode>>
       ELSE /\ Fail("Error creating cache directory")
            /\ UNCHANGED cacheDirExists
    /\ UNCHANGED <<clock, src, gomod, gosum, bin, altBin, tmpFiles,
                   cfgVars, histVars, argv, needsCompile,
                   hasGoMod, tmpPath, cmd, buildErr, spawnArgs, childExit>>

\* ensureCacheDir: os.MkdirAll succeeds on a directory that exists, and
\* creates it or fails (mkdirOK) on one that does not
EnsureCacheDir(mkdirOK) ==
    /\ pc = "sourceChecked"
    /\ steps' = Append(steps, "ensureCacheDir")
    /\ IF cacheDirExists \/ mkdirOK
       THEN /\ cacheDirExists' = TRUE
            /\ pc' = "cacheDirEnsured"
            /\ UNCHANGED <<stderr, exitCode>>
       ELSE /\ Fail("Error creating cache directory")
            /\ UNCHANGED cacheDirExists
    /\ UNCHANGED <<clock, src, gomod, gosum, bin, altBin, tmpFiles,
                   cfgVars, histVars, argv, needsCompile,
                   hasGoMod, tmpPath, cmd, buildErr, spawnArgs, childExit>>

\* getCachedBinaryPath: fails when filepath.Abs fails (absOK = FALSE)
GetCachedBinaryPath(absOK) ==
    /\ pc = "cacheDirEnsured"
    /\ steps' = Append(steps, "getCachedBinaryPath")
    /\ IF absOK
       THEN /\ pc' = "keyDerived"
            /\ UNCHANGED <<stderr, exitCode>>
       ELSE Fail("Error determining cache path")
    /\ UNCHANGED <<fsVars, cfgVars, histVars, argv, needsCompile, hasGoMod,
                   tmpPath, cmd, buildErr, spawnArgs, childExit>>

\* needsRecompile, its first os.Stat of the cached binary
NeedsRecompileStat ==
    /\ pc = "keyDerived"
    /\ steps' = Append(steps, "needsRecompile")
    /\ IF IsNotExist(Stat(bin).err)
       THEN /\ needsCompile' = TRUE
            /\ pc' = "staleChecked"
       ELSE /\ pc' = "binStatted"
            /\ UNCHANGED needsCompile
    /\ UNCHANGED <<fsVars, cfgVars, histVars, argv, hasGoMod, tmpPath, cmd,
                   buildErr, spawnArgs, childExit, exitCode, stderr>>

\* needsRecompile, the rest of it, and main's check of its error
NeedsRecompileRest(absOK) ==
    /\ pc = "binStatted"
    /\ LET r == NeedsRecompileTimes(bin, src, gomod, gosum, absOK)
       IN  IF r.err # "nil"
           THEN /\ Fail("Error checking file status")
                /\ UNCHANGED needsCompile
           ELSE /\ needsCompile' = r.stale
                /\ pc' = "staleChecked"
                /\ UNCHANGED <<stderr, exitCode>>
    /\ UNCHANGED <<fsVars, cfgVars, histVars, argv, hasGoMod, tmpPath, cmd,
                   buildErr, spawnArgs, childExit, steps>>

(***************************************************************************)
(* compileGoFile.                                                          *)
(***************************************************************************)
\* createTempFileWithoutShebang when tmpFile.WriteString fails: the temp
\* directory after tmpFile.Close(); os.Remove(tmpFile.Name())
RemoveAfterWriteError(files, t) == files \ {t}

\* a cleanup that is not run
NoCleanup(files, t) == files

\* the deferred cleanup of compileGoFile: os.Remove(tmpPath)
Cleanup(files, t) == files \ {t}

\* os.CreateTemp: a name no file of the temp directory has (NoTmp: there is none)
NewTmp ==
    IF TmpNames \subseteq tmpFiles THEN NoTmp
    ELSE CHOOSE n \in TmpNames \ tmpFiles : \A m \in TmpNames \ tmpFiles : n <= m

\* compileGoFile returning err before the go tool is run, and main's exit
CompileError(kind) ==
    /\ buildErr' = [kind |-> kind, hint |-> FALSE]
    /\ Fail("Error compiling")
    /\ UNCHANGED <<hasGoMod, tmpPath, cmd>>

\* compileGoFile up to cmd.Run starting the go tool.  absOK: filepath.Abs
\* succeeds; tmpOutcome: what happens in createTempFileWithoutShebang
CompileStart(absOK, tmpOutcome) ==
    /\ pc = "staleChecked"
    /\ needsCompile
    /\ IF ~absOK
       THEN /\ CompileError("abs")
            /\ steps' = Append(steps, "compileGoFile")
            /\ UNCHANGED <<tmpFiles, tmpWritten>>
       ELSE IF Stat(src).err # "nil"
       THEN /\ CompileError("shebang")
            /\ steps' = Append(steps, "compileGoFile")
            /\ UNCHANGED <<tmpFiles, tmpWritten>>
       ELSE IF HasShebang(src.data) /\ (tmpOutcome = "createError" \/ NewTmp = NoTmp)
       THEN /\ CompileError("temp")
            /\ steps' = Append(steps, "compileGoFile")
            /\ UNCHANGED <<tmpFiles, tmpWritten>>
       ELSE IF HasShebang(src.data) /\ tmpOutcome = "writeError"
       THEN /\ CompileError("temp")
            /\ steps' = Append(steps, "compileGoFile")
            /\ tmpFiles' = RemoveAfterWriteError(tmpFiles \cup {NewTmp}, NewTmp)
            /\ UNCHANGED tmpWritten
       ELSE LET hasShebangLine == HasShebang(src.data)
                fileToCompile == IF hasShebangLine THEN "temp" ELSE "source"
                goModFound == Stat(gomod).err = "nil"
            IN  /\ tmpPath' = IF hasShebangLine THEN NewTmp ELSE NoTmp
                /\ tmpFiles' = IF hasShebangLine THEN tmpFiles \cup {NewTmp}
                                                 ELSE tmpFiles
                /\ tmpWritten' = IF hasShebangLine
                                  THEN [made |-> TRUE,
                                        dir |-> CreateTempDir(<<>>, envTmpDir),
                                        data |-> StripShebang(src.data)]
                                  ELSE tmpWritten
                /\ hasGoMod' = goModFound
                /\ cmd' = BuildCommand(hasShebangLine, goModFound, fileToCompile)
                /\ steps' = steps \o <<"compileGoFile", "go build">>
                /\ pc' = "compiling"
                /\ UNCHANGED <<buildErr, stderr, exitCode>>
    /\ UNCHANGED <<clock, src, gomod, gosum, bin, altBin, cacheDirExists,
                   cacheDir, cwd, keyVars, envTmpDir, other, histVars, argv,
                   needsCompile, spawnArgs, childExit>>

\* a compileGoFile that removes the cached binary when the build has failed
CompileFinishRemovingStale(runOK) ==
    /\ pc = "compiling"
    /\ runOK => (cmd.file = "temp" \/ src.st = "ok")
    /\ buildErr' = BuildResult(runOK, hasGoMod)
    /\ tmpFiles' = IF tmpPath # NoTmp THEN Cleanup(tmpFiles, tmpPath) ELSE tmpFiles
    /\ tmpWritten' = IF tmpPath # NoTmp /\ tmpPath \notin tmpFiles'
                      THEN NoTmpFile ELSE tmpWritten
    /\ IF runOK
       THEN /\ IF OutputAtCachePath(cmd)
               THEN /\ bin' = [st |-> "ok", mtime |-> clock]
                    /\ UNCHANGED altBin
               ELSE /\ altBin' = TRUE
                    /\ UNCHANGED bin
            /\ built' = TRUE
            /\ changed' = {}
            /\ pc' = "built"
            /\ UNCHANGED <<stderr, exitCode>>
       ELSE /\ Fail("Error compiling")
            /\ bin' = NoFile
            /\ UNCHANGED <<altBin, histVars>>
    /\ UNCHANGED <<clock, src, gomod, gosum, cacheDirExists, cacheDir, cwd,
                   keyVars, envTmpDir, other,
                   argv, needsCompile, hasGoMod, tmpPath, cmd, spawnArgs,
                   childExit, steps>>

\* cmd.Run returns (runOK: the go tool succeeded), compileGoFile returns
\* through its deferred cleanup, and main checks the error
CompileFinish(runOK) ==
    /\ pc = "compiling"
    /\ runOK => (cmd.file = "temp" \/ src.st = "ok")
    /\ buildErr' = BuildResult(runOK, hasGoMod)
    /\ tmpFiles' = IF tmpPath # NoTmp THEN Cleanup(tmpFiles, tmpPath) ELSE tmpFiles
    /\ tmpWritten' = IF tmpPath # NoTmp /\ tmpPath \notin tmpFiles'
                      THEN NoTmpFile ELSE tmpWritten
    /\ IF runOK
       THEN /\ IF OutputAtCachePath(cmd)
               THEN /\ bin' = [st |-> "ok", mtime |-> clock]
                    /\ UNCHANGED altBin
               ELSE /\ altBin' = TRUE
                    /\ UNCHANGED bin
            /\ built' = TRUE
            /\ changed' = {}
            /\ pc' = "built"
            /\ UNCHANGED <<stderr, exitCode>>
       ELSE /\ Fail("Error compiling")
            /\ UNCHANGED <<bin, altBin, histVars>>
    /\ UNCHANGED <<clock, src, gomod, gosum, cacheDirExists, cacheDir, cwd,
                   keyVars, envTmpDir, other,
                   argv, needsCompile, hasGoMod, tmpPath, cmd, spawnArgs,
                   childExit, steps>>

(***************************************************************************)
(* runBinary.                                                              *)
(***************************************************************************)
\* runBinary starts the cached binary with flag.Args()[1:], or fails to
RunStart ==
    /\ \/ pc = "built"
       \/ pc = "staleChecked" /\ ~needsCompile
    /\ steps' = Append(steps, "runBinary")
    /\ IF bin.st = "ok"
       THEN /\ spawnArgs' = Tail(argv)
            /\ pc' = "running"
            /\ UNCHANGED <<stderr, exitCode>>
       ELSE LET err == [kind |-> "spawn", code |-> 0]
            IN  /\ exitCode' = ExitFor(err)
                /\ stderr' = IF ReportsRunError(err)
                             THEN Append(stderr, "Error running binary")
                             ELSE stderr
                /\ pc' = "exited"
                /\ UNCHANGED spawnArgs
    /\ UNCHANGED <<fsVars, cfgVars, histVars, argv, needsCompile, hasGoMod,
                   tmpPath, cmd, buildErr, childExit>>

\* a main that starts the binary again when it has failed
RunFinishRetry(c) ==
    /\ pc = "running"
    /\ childExit' = c
    /\ IF c = 0
       THEN /\ exitCode' = 0
            /\ pc' = "exited"
       ELSE /\ pc' = "running"
            /\ UNCHANGED exitCode
    /\ UNCHANGED <<fsVars, cfgVars, histVars, argv, needsCompile, hasGoMod,
                   tmpPath, cmd, buildErr, spawnArgs, steps, stderr>>

\* the binary exits with code c; cmd.Run returns and main exits
RunFinish(c) ==
    /\ pc = "running"
    /\ childExit' = c
    /\ LET err == RunResult(c)
       IN  /\ exitCode' = ExitFor(err)
           /\ stderr' = IF ReportsRunError(err)
                        THEN Append(stderr, "Error running binary")
                        ELSE stderr
    /\ pc' = "exited"
    /\ UNCHANGED <<fsVars, cfgVars, histVars, argv, needsCompile, hasGoMod,
                   tmpPath, cmd, buildErr, spawnArgs, steps>>

(***************************************************************************)
(* The environment.                                                        *)
(***************************************************************************)
\* an invocation is between its start and the end of its build
Deciding == pc \notin {"idle", "built", "running", "exited"}

\* the environment changes a file: what it changed since the last successful
\* build is recorded, as "midrun" when an invocation is deciding meanwhile
Note(what) ==
    /\ pc # "exited"
    /\ changed' = IF ~built THEN changed
                  ELSE IF Deciding THEN changed \cup {"midrun"}
                  ELSE changed \cup {what}
    /\ UNCHANGED built

Tick ==
    /\ clock < MaxTime
    /\ pc # "exited"
    /\ clock' = clock + 1
    /\ UNCHANGED <<src, gomod, gosum, bin, altBin, cacheDirExists, tmpFiles,
                   cfgVars, procVars, histVars>>

\* an editor saves the source file: new content, new modification time
WriteSource(d) ==
    /\ src.st = "ok"
    /\ d # src.data
    /\ src' = [st |-> "ok", mtime |-> clock, data |-> d]
    /\ Note("source")
    /\ UNCHANGED <<clock, gomod, gosum, bin, altBin, cacheDirExists, tmpFiles,
                   cfgVars, procVars>>

RemoveSource ==
    /\ src.st = "ok"
    /\ src' = [st |-> "absent", mtime |-> 0, data |-> <<>>]
    /\ Note("other")
    /\ UNCHANGED <<clock, gomod, gosum, bin, altBin, cacheDirExists, tmpFiles,
                   cfgVars, procVars>>

\* touch go.mod
TouchGoMod ==
    /\ gomod.st = "ok"
    /\ gomod' = [st |-> "ok", mtime |-> clock]
    /\ Note("manifest")
    /\ UNCHANGED <<clock, src, gosum, bin, altBin, cacheDirExists, tmpFiles,
                   cfgVars, procVars>>

\* touch go.sum
TouchGoSum ==
    /\ gosum.st = "ok"
    /\ gosum' = [st |-> "ok", mtime |-> clock]
    /\ Note("manifest")
    /\ UNCHANGED <<clock, src, gomod, bin, altBin, cacheDirExists, tmpFiles,
                   cfgVars, procVars>>

\* the cache is cleaned from outside
EvictBinary ==
    /\ bin.st = "ok"
    /\ bin' = NoFile
    /\ Note("other")
    /\ UNCHANGED <<clock, src, gomod, gosum, altBin, cacheDirExists, tmpFiles,
                   cfgVars, procVars>>

Next ==
    \/ \E args \in ArgLists : Start(args)
    \/ Gone
    \/ CheckSource
    \/ \E mkdirOK \in BOOLEAN : EnsureCacheDir(mkdirOK)
    \/ \E absOK \in BOOLEAN : GetCachedBinaryPath(absOK)
    \/ NeedsRecompileStat
    \/ \E absOK \in BOOLEAN : NeedsRecompileRest(absOK)
    \/ \E absOK \in BOOLEAN, o \in {"ok", "createError", "writeError"} :
          CompileStart(absOK, o)
    \/ \E runOK \in BOOLEAN : CompileFinish(runOK)
    \/ RunStart
    \/ \E c \in ExitCodes : RunFinish(c)
    \/ Tick
    \/ \E d \in SourceTexts : WriteSource(d)
    \/ RemoveSource
    \/ TouchGoMod
    \/ TouchGoSum
    \/ EvictBinary

Spec == Init /\ [][Next]_vars

(***************************************************************************)
(* needsRecompile alone, as a function of the files: every combination of  *)
(* existence and times of the cached binary, the source, go.mod and go.sum *)
(* is an initial state, and main is about to call needsRecompile.          *)
(***************************************************************************)
Files == [st : {"ok"}, mtime : 0..MaxTime] \cup [st : {"absent", "error"}, mtime : {0}]

InitStale ==
    /\ clock = MaxTime
    /\ src \in {[st |-> f.st, mtime |-> f.mtime, data |-> <<"p">>] : f \in Files}
    /\ gomod \in Files
    /\ gosum \in Files
    /\ bin \in Files
    /\ altBin = FALSE
    /\ cacheDirExists = TRUE
    /\ tmpFiles = {}
    /\ cacheDir = "/home/u/.cache/grun"
    /\ cwd = "srcdir"
    /\ pc = "keyDerived"
    /\ argv = <<"script.go", "fail">>
    /\ needsCompile = FALSE
    /\ hasGoMod = FALSE
    /\ tmpPath = NoTmp
    /\ cmd = NoCmd
    /\ buildErr = NoErr
    /\ spawnArgs = <<>>
    /\ childExit = NotExited
    /\ exitCode = NotExited
    /\ stderr = <<>>
    /\ steps = <<"ensureCacheDir", "getCachedBinaryPath">>
    /\ built = FALSE
    /\ changed = {}
    /\ UnitIdle

NextStale ==
    \/ NeedsRecompileStat
    \/ NeedsRecompileRest(TRUE)

SpecStale == InitStale /\ [][NextStale]_vars

(***************************************************************************)
(* getCachedBinaryPath on its own: calls with any spelling of the source   *)
(* argument from any working directory, while the source is edited.        *)
(***************************************************************************)
\* the program at rest, with a source and no manifest
MainIdle ==
    /\ clock = 0
    /\ src = [st |-> "ok", mtime |-> 0, data |-> <<"p", "\n", "p">>]
    /\ gomod = NoFile
    /\ gosum = NoFile
    /\ bin = NoFile
    /\ altBin = FALSE
    /\ cacheDirExists = FALSE
    /\ tmpFiles = {}
    /\ cwd = "srcdir"
    /\ pc = "idle"
    /\ argv = <<>>
    /\ needsCompile = FALSE
    /\ hasGoMod = FALSE
    /\ tmpPath = NoTmp
    /\ cmd = NoCmd
    /\ buildErr = NoErr
    /\ spawnArgs = <<>>
    /\ childExit = NotExited
    /\ exitCode = NotExited
    /\ stderr = <<>>
    /\ steps = <<>>
    /\ built = FALSE
    /\ changed = {}

InitKey ==
    /\ MainIdle
    /\ cacheDir \in CacheDirs
    /\ UnitIdle

\* getCachedBinaryPath(sourceFile) called in the working directory wd;
\* digest is sha256.Sum256 of the absolute path, the same at every call
GetCachedBinaryPathCall(wd, sourceFile, digest) ==
    /\ Cardinality(keys) < MaxCalls
    /\ LET absPath == Abs(wd, sourceFile)
       IN  /\ absPath \in DOMAIN sum256 => digest = sum256[absPath]
           /\ sum256' = [x \in DOMAIN sum256 \cup {absPath} |->
                            IF x = absPath THEN digest ELSE sum256[x]]
           /\ keys' = keys \cup
                  {[wd |-> wd, sourceFile |-> sourceFile, absPath |-> absPath,
                    path |-> CachedBinaryPath(sourceFile, digest, cacheDir)]}
    /\ UNCHANGED <<fsVars, cacheDir, cwd, procVars, histVars,
                   flagCacheDir, envCache, homeDir, procs, binWriter,
                   osArgs, dirVars>>

NextKey ==
    \/ \E wd \in CwdPaths, sourceFile \in Spellings, digest \in Digests :
          GetCachedBinaryPathCall(wd, sourceFile, digest)
    \/ \E d \in SourceTexts : WriteSource(d)

SpecKey == InitKey /\ [][NextKey]_vars

(***************************************************************************)
(* getCacheDir on its own, for every setting of the flag, the environment  *)
(* variable and the home directory.  cacheDir is its result; "": no call   *)
(* since the settings were last changed.                                   *)
(***************************************************************************)
InitDir ==
    /\ MainIdle
    /\ DirIdle
    /\ sum256 = NoSums
    /\ keys = {}
    /\ flagCacheDir \in FlagValues
    /\ envCache \in EnvValues
    /\ homeDir \in HomeDirs
    /\ cacheDir = ""
    /\ procs = NoProcs
    /\ binWriter = NoProc
    /\ osArgs = <<>>

\* cachePath := getCacheDir()
GetCacheDirCall ==
    /\ cacheDir = ""
    /\ cacheDir' = GetCacheDir(flagCacheDir, envCache, homeDir)
    /\ UNCHANGED <<fsVars, cwd, procVars, histVars, unitVars>>

\* *cacheDir = v, by flag.Parse or as the tests set it
SetFlag(v) ==
    /\ v # flagCacheDir
    /\ flagCacheDir' = v
    /\ cacheDir' = ""
    /\ UNCHANGED <<fsVars, cwd, procVars, histVars, sum256, keys, envCache,
                   homeDir, procs, binWriter, osArgs, dirVars>>

\* os.Setenv("GRUN_CACHE", v); os.Unsetenv for ""
Setenv(v) ==
    /\ v # envCache
    /\ envCache' = v
    /\ cacheDir' = ""
    /\ UNCHANGED <<fsVars, cwd, procVars, histVars, sum256, keys, flagCacheDir,
                   homeDir, procs, binWriter, osArgs, dirVars>>

NextDir ==
    \/ GetCacheDirCall
    \/ \E v \in FlagValues : SetFlag(v)
    \/ \E v \in EnvValues : Setenv(v)

SpecDir == InitDir /\ [][NextDir]_vars

(***************************************************************************)
(* Two invocations of main for the same source and cache directory, hence  *)
(* the same cached binary path, from the staleness check on.  Each step of *)
(* an invocation is a step of main; the go tool and the spawned binary run *)
(* between a start and a finish step.                                      *)
(***************************************************************************)
InitRace ==
    /\ MainIdle
    /\ DirIdle
    /\ cacheDir = "/home/u/.cache/grun"
    /\ sum256 = NoSums
    /\ keys = {}
    /\ flagCacheDir = ""
    /\ envCache = ""
    /\ homeDir = "/home/u"
    /\ procs = [i \in Procs |-> [pc |-> "start", needsCompile |-> FALSE]]
    /\ binWriter = NoProc
    /\ osArgs = <<>>

\* what a step of invocation i leaves alone
RaceFrame ==
    UNCHANGED <<clock, src, gomod, gosum, altBin, cacheDirExists, tmpFiles,
                cacheDir, cwd, procVars, histVars,
                sum256, keys, flagCacheDir, envCache, homeDir, osArgs,
                dirVars>>

\* needsCompile, err := needsRecompile(sourceFile, cachedBinary)
RaceCheck(i) ==
    /\ procs[i].pc = "start"
    /\ LET r == IF IsNotExist(Stat(bin).err)
                THEN [stale |-> TRUE, err |-> "nil"]
                ELSE NeedsRecompileTimes(bin, src, gomod, gosum, TRUE)
       IN  procs' = [procs EXCEPT ![i] =
                        IF r.err # "nil"
                        THEN [pc |-> "done", needsCompile |-> FALSE]
                        ELSE [pc |-> "checked", needsCompile |-> r.stale]]
    /\ UNCHANGED <<bin, binWriter>>
    /\ RaceFrame

\* a compileGoFile that builds only when no other invocation builds or runs
RaceBuildStartLocked(i) ==
    /\ procs[i].pc = "checked" /\ procs[i].needsCompile
    /\ \A j \in Procs \ {i} : procs[j].pc \notin {"building", "running"}
    /\ procs' = [procs EXCEPT ![i].pc = "building"]
    /\ UNCHANGED <<bin, binWriter>>
    /\ RaceFrame

\* compileGoFile starts go build -o cachedBinary
RaceBuildStart(i) ==
    /\ procs[i].pc = "checked" /\ procs[i].needsCompile
    /\ procs' = [procs EXCEPT ![i].pc = "building"]
    /\ UNCHANGED <<bin, binWriter>>
    /\ RaceFrame

\* go build ends: it has written the binary at the cache path, or failed
RaceBuildFinish(i, runOK) ==
    /\ procs[i].pc = "building"
    /\ IF runOK
       THEN /\ bin' = [st |-> "ok", mtime |-> clock]
            /\ binWriter' = i
            /\ procs' = [procs EXCEPT ![i].pc = "built"]
       ELSE /\ procs' = [procs EXCEPT ![i].pc = "done"]
            /\ UNCHANGED <<bin, binWriter>>
    /\ RaceFrame

\* runBinary(cachedBinary, args) starts the binary, or cannot
RaceRunStart(i) ==
    /\ \/ procs[i].pc = "built"
       \/ procs[i].pc = "checked" /\ ~procs[i].needsCompile
    /\ procs' = [procs EXCEPT ![i].pc =
                    IF bin.st = "ok" THEN "running" ELSE "done"]
    /\ UNCHANGED <<bin, binWriter>>
    /\ RaceFrame

\* the binary exits and main with it
RaceRunFinish(i) ==
    /\ procs[i].pc = "running"
    /\ procs' = [procs EXCEPT ![i].pc = "done"]
    /\ UNCHANGED <<bin, binWriter>>
    /\ RaceFrame

\* the user invokes grun again
RaceAgain(i) ==
    /\ procs[i].pc = "done"
    /\ procs' = [procs EXCEPT ![i] = [pc |-> "start", needsCompile |-> FALSE]]
    /\ UNCHANGED <<bin, binWriter>>
    /\ RaceFrame

\* the next step of invocation i
RaceStep(i) ==
    \/ RaceCheck(i)
    \/ RaceBuildStart(i)
    \/ \E runOK \in BOOLEAN : RaceBuildFinish(i, runOK)
    \/ RaceRunStart(i)
    \/ RaceRunFinish(i)
    \/ RaceAgain(i)

NextRace ==
    \/ \E i \in Procs : RaceStep(i)
    \/ Tick
    \/ \E d \in SourceTexts : WriteSource(d)

SpecRace == InitRace /\ [][NextRace]_vars

(***************************************************************************)
(* main from the command line as the user wrote it: flag.Parse, then the   *)
(* steps of main with nothing failing and nothing changed meanwhile.  The  *)
(* flag's value, which flag.Parse sets before anything reads it, is there  *)
(* from the start.                                                         *)
(***************************************************************************)
InitArgs ==
    /\ MainIdle
    /\ DirIdle
    /\ osArgs \in SeqsUpTo(Words, MaxArgs)
    /\ flagCacheDir = FlagParse(osArgs, "").cacheDir
    /\ envCache = ""
    /\ homeDir = "/home/u"
    /\ cacheDir = GetCacheDir(flagCacheDir, envCache, homeDir)
    /\ sum256 = NoSums
    /\ keys = {}
    /\ procs = NoProcs
    /\ binWriter = NoProc

\* flag.Parse succeeds: main goes on with flag.Args()
StartParsed ==
    /\ FlagParse(osArgs, "").err = ""
    /\ Start(FlagParse(osArgs, "").args)

\* flag.Parse fails: the flag package reports the error and exits with 2
FlagError ==
    /\ pc = "idle"
    /\ FlagParse(osArgs, "").err # ""
    /\ stderr' = Append(stderr, FlagParse(osArgs, "").err)
    /\ exitCode' = 2
    /\ pc' = "exited"
    /\ UNCHANGED <<fsVars, cfgVars, histVars, argv, needsCompile, hasGoMod,
                   tmpPath, cmd, buildErr, spawnArgs, childExit, steps>>

NextArgs ==
    \/ StartParsed
    \/ FlagError
    \/ Gone
    \/ CheckSource
    \/ EnsureCacheDir(TRUE)
    \/ GetCachedBinaryPath(TRUE)
    \/ NeedsRecompileStat
    \/ NeedsRecompileRest(TRUE)
    \/ CompileStart(TRUE, "ok")
    \/ CompileFinish(TRUE)
    \/ RunStart
    \/ RunFinish(0)

SpecArgs == InitArgs /\ [][NextArgs]_vars

(***************************************************************************)
(* main in its surroundings: the temp directory that $TMPDIR names, which  *)
(* may lie in the source's directory, another file in that directory, and  *)
(* a go.mod that is made after the first runs.  Every step of main can     *)
(* fail as in Spec; the source, go.sum and the cache are left alone from   *)
(* outside.                                                                *)
(***************************************************************************)
InitTree ==
    /\ clock = 0
    /\ src \in {[st |-> "ok", mtime |-> 0, data |-> d] : d \in SourceTexts}
    /\ gomod \in {NoFile, [st |-> "ok", mtime |-> 0]}
    /\ gosum = NoFile
    /\ bin = NoFile
    /\ altBin = FALSE
    /\ cacheDirExists = FALSE
    /\ tmpFiles = {}
    /\ cacheDir \in CacheDirs
    /\ cwd \in Cwds
    /\ pc = "idle"
    /\ argv = <<>>
    /\ needsCompile = FALSE
    /\ hasGoMod = FALSE
    /\ tmpPath = NoTmp
    /\ cmd = NoCmd
    /\ buildErr = NoErr
    /\ spawnArgs = <<>>
    /\ childExit = NotExited
    /\ exitCode = NotExited
    /\ stderr = <<>>
    /\ steps = <<>>
    /\ built = FALSE
    /\ changed = {}
    /\ envTmpDir \in TmpDirValues
    /\ other = [st |-> "ok", mtime |-> 0]
    /\ tmpWritten = NoTmpFile
    /\ KeyIdle

\* another file of the source's directory is saved
TouchOther ==
    /\ other.st = "ok"
    /\ other' = [st |-> "ok", mtime |-> clock]
    /\ Note("sibling")
    /\ UNCHANGED <<fsVars, cacheDir, cwd, keyVars, envTmpDir, tmpWritten,
                   procVars>>

\* go mod init in the source's directory
CreateGoMod ==
    /\ gomod.st = "absent"
    /\ gomod' = [st |-> "ok", mtime |-> clock]
    /\ Note("manifest")
    /\ UNCHANGED <<clock, src, gosum, bin, altBin, cacheDirExists, tmpFiles,
                   cfgVars, procVars>>

NextTree ==
    \/ \E args \in ArgLists : Start(args)
    \/ Gone
    \/ CheckSource
    \/ \E mkdirOK \in BOOLEAN : EnsureCacheDir(mkdirOK)
    \/ \E absOK \in BOOLEAN : GetCachedBinaryPath(absOK)
    \/ NeedsRecompileStat
    \/ \E absOK \in BOOLEAN : NeedsRecompileRest(absOK)
    \/ \E absOK \in BOOLEAN, o \in {"ok", "createError", "writeError"} :
          CompileStart(absOK, o)
    \/ \E runOK \in BOOLEAN : CompileFinish(runOK)
    \/ RunStart
    \/ \E c \in ExitCodes : RunFinish(c)
    \/ Tick
    \/ TouchOther
    \/ CreateGoMod

SpecTree == InitTree /\ [][NextTree]_vars

(***************************************************************************)
(* main as a process that is scheduled: a step that main can take by       *)
(* itself is taken in the end, and the go tool and the spawned binary, on  *)
(* which main waits in cmd.Run, exit in the end.  The files may be changed *)
(* or removed from outside at any moment; the clock stands still.          *)
(***************************************************************************)
\* the steps main takes without waiting for a child process
MainStep ==
    \/ CheckSource
    \/ \E mkdirOK \in BOOLEAN : EnsureCacheDir(mkdirOK)
    \/ \E absOK \in BOOLEAN : GetCachedBinaryPath(absOK)
    \/ NeedsRecompileStat
    \/ \E absOK \in BOOLEAN : NeedsRecompileRest(absOK)
    \/ \E absOK \in BOOLEAN, o \in {"ok", "createError", "writeError"} :
          CompileStart(absOK, o)
    \/ RunStart

\* cmd.Run returns: the go tool or the spawned binary has exited
ChildExit ==
    \/ \E runOK \in BOOLEAN : CompileFinish(runOK)
    \/ \E c \in ExitCodes : RunFinish(c)

NextLive ==
    \/ \E args \in ArgLists : Start(args)
    \/ Gone
    \/ MainStep
    \/ ChildExit
    \/ \E d \in SourceTexts : WriteSource(d)
    \/ RemoveSource
    \/ EvictBinary

SpecLive == Init /\ [][NextLive]_vars /\ WF_vars(MainStep) /\ WF_vars(ChildExit)

(***************************************************************************)
(* compileGoFile on its own, for every source text of at most MaxLen bytes *)
(* and with or without a go.mod: main has found the binary stale and is    *)
(* about to call compileGoFile.                                            *)
(***************************************************************************)
InitStrip ==
    /\ clock = 0
    /\ src \in {[st |-> "ok", mtime |-> 0, data |-> d] : d \in SeqsUpTo(Bytes, MaxLen)}
    /\ gomod \in {NoFile, [st |-> "ok", mtime |-> 0]}
    /\ gosum = NoFile
    /\ bin = NoFile
    /\ altBin = FALSE
    /\ cacheDirExists = TRUE
    /\ tmpFiles = {}
    /\ cacheDir = "/home/u/.cache/grun"
    /\ cwd = "srcdir"
    /\ pc = "staleChecked"
    /\ argv = <<"script.go", "fail">>
    /\ needsCompile = TRUE
    /\ hasGoMod = FALSE
    /\ tmpPath = NoTmp
    /\ cmd = NoCmd
    /\ buildErr = NoErr
    /\ spawnArgs = <<>>
    /\ childExit = NotExited
    /\ exitCode = NotExited
    /\ stderr = <<>>
    /\ steps = <<"ensureCacheDir", "getCachedBinaryPath", "needsRecompile">>
    /\ built = FALSE
    /\ changed = {}
    /\ UnitIdle

NextStrip ==
    \/ \E o \in {"ok", "createError", "writeError"} : CompileStart(TRUE, o)
    \/ \E runOK \in BOOLEAN : CompileFinish(runOK)

SpecStrip == InitStrip /\ [][NextStrip]_vars

(***************************************************************************)
(* Properties.                                                             *)
(***************************************************************************)
Range(s) == {s[i] : i \in 1..Len(s)}

\* the current invocation has built successfully
BuiltNow ==
    /\ pc \in {"built", "running", "exited"}
    /\ "go build" \in Range(steps)
    /\ buildErr = NoErr

\* a successful build was made by an earlier invocation than the current one
BuiltEarlier == built /\ ~BuiltNow

\* the step on which needsRecompile returns to main without an error
CheckStep == pc \in {"keyDerived", "binStatted"} /\ pc' = "staleChecked"

\* the go tool resolves the output path to the cached binary path of main
OutputPathAgrees == IsAbs(cacheDir) \/ cwd = "srcdir" \/ gomod.st # "ok"

\* C1: cache hit idempotence: after an invocation built successfully and
\* with the source, go.mod, go.sum and the cache left alone since, a later
\* invocation does not need to compile and does not call the compiler.
C1_CacheHitIdempotence ==
    (BuiltEarlier /\ changed = {}) =>
        (~needsCompile /\ "compileGoFile" \notin Range(steps))

\* C1 where the go tool and main agree on the output path
C1_WhenOutputPathAgrees ==
    (BuiltEarlier /\ changed = {} /\ OutputPathAgrees) =>
        (~needsCompile /\ "compileGoFile" \notin Range(steps))

\* a state of the second invocation that runs the cached binary without
\* having compiled, the cache being where main looks for it
C1_CacheHit ==
    /\ BuiltEarlier /\ changed = {}
    /\ pc = "running" /\ ~needsCompile
    /\ "compileGoFile" \notin Range(steps)

\* C2, as stated: once the source was modified after a successful build
\* the next staleness check answers that a compilation is needed.
C2_AnyModificationRebuilds ==
    [][(CheckStep /\ built /\ "source" \in changed) => needsCompile']_vars

\* the source carries a time strictly later than the cached binary's
SourceStrictlyNewer == src.st = "ok" /\ bin.st = "ok" /\ src.mtime > bin.mtime

\* C2, amended: once the source was modified after a successful build and
\* its modification time is strictly later than the cached binary's, the
\* next staleness check answers that a compilation is needed, and the
\* binary is then run only after the compiler was run without error.
C2_NewerSourceRebuilds ==
    /\ [][(CheckStep /\ built /\ "source" \in changed
                /\ SourceStrictlyNewer)
             => needsCompile']_vars
    /\ [](pc = "running" /\ needsCompile =>
             "go build" \in Range(steps) /\ buildErr = NoErr)

\* a later invocation compiling again for a source modified after the build
C2_Rebuilding ==
    /\ BuiltEarlier /\ "source" \in changed /\ SourceStrictlyNewer
    /\ pc = "compiling"

\* C3, as stated: with the source untouched, once go.mod or go.sum was
\* touched after a successful build (and nothing else happened) the next
\* staleness check answers that a compilation is needed.
C3_AnyManifestTouchRebuilds ==
    [][(CheckStep /\ built /\ changed = {"manifest"}) => needsCompile']_vars

\* go.mod or go.sum carries a time strictly later than the cached binary's
ManifestStrictlyNewer ==
    /\ bin.st = "ok"
    /\ \/ gomod.st = "ok" /\ gomod.mtime > bin.mtime
       \/ gosum.st = "ok" /\ gosum.mtime > bin.mtime

\* C3, amended: with the source untouched, once go.mod or go.sum was touched
\* after a successful build and its modification time is strictly later
\* than the cached binary's, the next staleness check answers that a
\* compilation is needed.
C3_NewerManifestRebuilds ==
    [][(CheckStep /\ built /\ changed = {"manifest"} /\ ManifestStrictlyNewer) => needsCompile']_vars

\* a later invocation compiling again for a manifest touched alone
C3_Rebuilding ==
    /\ BuiltEarlier /\ changed = {"manifest"}
    /\ ManifestStrictlyNewer
    /\ src.st = "ok" /\ src.mtime <= bin.mtime
    /\ pc = "compiling"

\* C4: when the binary was spawned and exited, the invocation exits with the
\* binary's exit code, whatever it is, and writes nothing to the error stream.
C4_ExitCodePropagation ==
    (pc = "exited" /\ childExit # NotExited) =>
        (exitCode = childExit /\ stderr = <<>>)

\* the binary exited with 7 and so did the invocation
C4_ExitSeven == pc = "exited" /\ childExit = 7 /\ exitCode = 7

\* the staleness decision of the specification, on files that can be statted
ReferenceStale ==
    \/ bin.st = "absent"
    \/ src.mtime > bin.mtime
    \/ gomod.st = "ok" /\ gomod.mtime > bin.mtime
    \/ gosum.st = "ok" /\ gosum.mtime > bin.mtime

\* C5: whenever needsRecompile returns without an error its answer is the
\* reference decision on the files as they are (equal times: not stale),
\* and with the cached binary and the source there to be statted it returns
\* without an error whether go.mod and go.sum exist or not.
C5_NeedsRecompileIsReference ==
    /\ [][CheckStep => (needsCompile' = ReferenceStale)]_vars
    /\ [][(pc = "binStatted" /\ bin.st = "ok" /\ src.st = "ok")
             => pc' = "staleChecked"]_vars

\* not stale: equal times of source and binary, no go.mod, an older go.sum
C5_TieIsFresh ==
    /\ pc = "staleChecked" /\ ~needsCompile
    /\ bin.st = "ok" /\ src.mtime = bin.mtime
    /\ gomod.st = "absent"
    /\ gosum.st = "ok" /\ gosum.mtime < bin.mtime

\* the source starts with the two-character directive marker
Directive(data) == Len(data) >= 2 /\ data[1] = "#" /\ data[2] = "!"

\* the Builder's decision table: the compilation unit and working directory
DecisionTable(directive, manifest) ==
    CASE ~directive /\ ~manifest -> [file |-> "source", dir |-> "", explicit |-> TRUE]
      [] directive /\ ~manifest -> [file |-> "temp", dir |-> "", explicit |-> TRUE]
      [] ~directive /\ manifest -> [file |-> "", dir |-> "srcdir", explicit |-> FALSE]
      [] directive /\ manifest -> [file |-> "temp", dir |-> "srcdir", explicit |-> TRUE]

\* the step on which compileGoFile starts the go tool
BuildStep == pc = "staleChecked" /\ pc' = "compiling"

\* C6: the command compileGoFile runs is the one of the decision table for
\* (directive present, go.mod present), and the file it names as the
\* stripped copy is a temporary file that exists.
C6_DecisionTable ==
    [][BuildStep =>
          /\ cmd' = DecisionTable(Directive(src.data), gomod.st = "ok")
          /\ Directive(src.data) => tmpPath' \in tmpFiles'
          /\ ~Directive(src.data) => tmpPath' = NoTmp]_vars

\* directive and go.mod: the stripped copy is compiled in the source's directory
C6_DirectiveInModule ==
    /\ pc = "compiling" /\ Directive(src.data) /\ gomod.st = "ok"
    /\ cmd = [file |-> "temp", dir |-> "srcdir", explicit |-> TRUE]

\* C7: outside of a running build no stripped temporary file exists: it is
\* gone when compileGoFile has returned, whether the build succeeded, failed
\* or the temporary file could not be written; during the build there is
\* none but the one of the build; and a build of a source without the
\* directive creates none.
C7_TempFileCleanup ==
    /\ [](pc # "compiling" => tmpFiles = {})
    /\ [](pc = "compiling" =>
             tmpFiles = (IF tmpPath = NoTmp THEN {} ELSE {tmpPath}))
    /\ [][(pc = "staleChecked" /\ src.st = "ok" /\ ~Directive(src.data))
             => tmpFiles' = tmpFiles]_vars

\* a build of a stripped copy has failed and the copy is gone
C7_FailedBuildCleaned ==
    /\ pc = "exited" /\ buildErr.kind = "build"
    /\ cmd.file = "temp" /\ tmpPath # NoTmp
    /\ tmpFiles = {}

\* C8: a failure of the go tool is returned with the hint when compileGoFile
\* found no go.mod and without it when it found one, compileGoFile finds
\* go.mod exactly when it is there, and a successful build returns no error.
C8_BuildFailureHint ==
    /\ [][BuildStep => (hasGoMod' = (gomod.st = "ok"))]_vars
    /\ [][(pc = "compiling" /\ pc' = "exited")
             => buildErr' = [kind |-> "build", hint |-> ~hasGoMod]]_vars
    /\ [][(pc = "compiling" /\ pc' = "built") => buildErr' = NoErr]_vars

\* the go tool failed on a source without go.mod: the error carries the hint
C8_HintGiven ==
    /\ pc = "exited" /\ gomod.st = "absent"
    /\ buildErr = [kind |-> "build", hint |-> TRUE]
    /\ stderr = <<"Error compiling">>

\* the steps of main, in the order of its text
Order ==
    <<"ensureCacheDir", "getCachedBinaryPath", "needsRecompile",
      "compileGoFile", "go build", "runBinary">>

Pos(step) == CHOOSE i \in 1..Len(Order) : Order[i] = step

Done(step) == step \in Range(steps)

\* C9: the steps an invocation has taken are in the order ensure cache
\* directory, derive key, check staleness, build, run, each at most once
\* and none before the ones it follows; the build is taken only on a stale
\* answer and the run only after a build that succeeded or a fresh answer;
\* and an invocation that has reported an error or has an exit code has
\* ended and takes no further step.
C9_OrderAndShortCircuit ==
    /\ [](\A i, j \in 1..Len(steps) : i < j => Pos(steps[i]) < Pos(steps[j]))
    /\ [](/\ Done("getCachedBinaryPath") => Done("ensureCacheDir")
          /\ Done("needsRecompile") => Done("getCachedBinaryPath")
          /\ Done("compileGoFile") => Done("needsRecompile") /\ needsCompile
          /\ Done("go build") => Done("compileGoFile")
          /\ Done("runBinary") =>
                /\ Done("needsRecompile")
                /\ needsCompile <=> Done("go build")
                /\ buildErr = NoErr)
    /\ []((stderr # <<>> \/ exitCode # NotExited) => pc = "exited")
    /\ [][pc = "exited" => (steps' = steps \/ pc' = "idle")]_vars

\* the build has failed: the invocation has ended after the go tool,
\* without running anything
C9_EndedAfterFailedBuild ==
    /\ pc = "exited" /\ buildErr.kind = "build"
    /\ steps = <<"ensureCacheDir", "getCachedBinaryPath", "needsRecompile",
                 "compileGoFile", "go build">>

\* C10: an invocation that ends without the artifact having run ends with
\* exit code 1 and a message on the error stream, and needsRecompile never
\* answers "fresh" over a stat of go.mod or go.sum that failed for a reason
\* other than the file not existing.
C10_NoErrorSwallowed ==
    /\ []((pc = "exited" /\ childExit = NotExited)
             => (exitCode = 1 /\ stderr # <<>>))
    /\ [][(pc = "binStatted" /\ pc' = "staleChecked" /\ ~needsCompile')
             => /\ Stat(gomod).err \in {"nil", "ENOENT"}
                /\ Stat(gosum).err \in {"nil", "ENOENT"}]_vars

\* the part of C10 about the failures main reports
C10_ReportedFailuresExitOne ==
    (pc = "exited" /\ childExit = NotExited) => (exitCode = 1 /\ stderr # <<>>)

\* C11: calls of getCachedBinaryPath whose source arguments resolve to the
\* same absolute path return the same cache path, whatever the spelling of
\* the argument, the working directory and the source's content.
C11_KeyStability ==
    \A a, b \in keys : a.absPath = b.absPath => a.path = b.path

\* the same for the calls whose argument is written with the file's name last
C11_StableForPlainSpellings ==
    \A a, b \in keys :
        (/\ a.absPath = b.absPath
         /\ Base(a.sourceFile) \notin {Dot, DotDot}
         /\ Base(b.sourceFile) \notin {Dot, DotDot}) => a.path = b.path

\* the part of the digest of a call's absolute path that the cache path keeps
HashStrOf(call) == SubSeq(sum256[call.absPath], 1, HashStrLen)

\* C12 as stated: calls for distinct absolute paths return distinct cache
\* paths.
C12_DistinctPathsDistinctKeys ==
    \A a, b \in keys : a.absPath # b.absPath => a.path # b.path

\* C12, amended: calls for distinct absolute paths return distinct cache
\* paths whenever the first 16 digits of the digests of the two absolute
\* paths differ.
C12_DistinctUnlessDigestPrefixCollides ==
    \A a, b \in keys :
        (a.absPath # b.absPath /\ HashStrOf(a) # HashStrOf(b))
            => a.path # b.path

\* same-named scripts in two directories, each called from its own
\* directory, have got distinct cache paths
C12_SameNameTwoDirectories ==
    \E a, b \in keys :
        /\ a.wd # b.wd
        /\ a.sourceFile = b.sourceFile
        /\ a.sourceFile = [rooted |-> FALSE, elems |-> <<NameGo>>]
        /\ a.absPath # b.absPath
        /\ a.path # b.path

\* C13: the result of getCacheDir is the flag's value when that is not
\* empty; else the value of GRUN_CACHE when that is not empty; else
\* .cache/grun under the home directory; and the relative .cache/grun when
\* there is no home directory.
C13_CacheDirResolutionOrder ==
    cacheDir # "" =>
        cacheDir = CASE flagCacheDir # "" -> flagCacheDir
                     [] flagCacheDir = "" /\ envCache # "" -> envCache
                     [] flagCacheDir = "" /\ envCache = "" /\ homeDir # ""
                          -> JoinDefault(homeDir)
                     [] flagCacheDir = "" /\ envCache = "" /\ homeDir = ""
                          -> ".cache/grun"

\* flag and environment variable are both set: the flag has won
C13_FlagOverEnvironment ==
    /\ flagCacheDir = "/f" /\ envCache = "/e"
    /\ cacheDir = "/f"

\* the step on which main calls runBinary
RunStep == ~Done("runBinary") /\ Done("runBinary")'

\* C14: when runBinary is called and the cached binary cannot be started,
\* no binary runs and the invocation ends with exit code 1 and the message
\* "Error running binary"; an invocation whose binary ran and exited with a
\* nonzero code ends with that code and no message of its own, so the two
\* outcomes differ even when the binary's code is 1.
C14_SpawnErrorIsDistinct ==
    /\ [][(RunStep /\ bin.st # "ok")
             => (pc' = "exited" /\ childExit' = NotExited)]_vars
    /\ []((pc = "exited" /\ Done("runBinary") /\ childExit = NotExited)
             => (exitCode = 1 /\ stderr = <<"Error running binary">>))
    /\ []((pc = "exited" /\ childExit \notin {NotExited, 0})
             => (exitCode = childExit /\ stderr = <<>>))

\* the binary was there at the staleness check and gone at the spawn
C14_SpawnFailed ==
    /\ pc = "exited" /\ Done("runBinary") /\ ~needsCompile
    /\ bin.st = "absent" /\ childExit = NotExited
    /\ exitCode = 1 /\ stderr = <<"Error running binary">>

\* C15: no invocation ever waits for the other: whatever the other one is
\* doing, an invocation can take its next step, a build or a run of the
\* shared cached binary included; and the binary at the cache path is the
\* one of the build that ended last.
C15_UnlockedSharedCache ==
    /\ [](\A i \in Procs : ENABLED RaceStep(i))
    /\ [][\A i \in Procs :
            (procs[i].pc = "building" /\ procs'[i].pc = "built")
                => (binWriter' = i /\ bin' = [st |-> "ok", mtime |-> clock])]_vars

\* one invocation runs the cached binary while the other, having found it
\* stale, is rebuilding it
C15_RunDuringRebuild ==
    /\ procs["p"].pc = "running"
    /\ procs["q"].pc = "building"
    /\ binWriter = "p"

RECURSIVE IsFlags(_)
\* words that are flags of grun, each with its value
IsFlags(words) ==
    \/ words = <<>>
    \/ Head(words) \in FlagsWithValue /\ IsFlags(Tail(words))
    \/ Head(words) \in FlagNames /\ Len(words) >= 2 /\ IsFlags(Tail(Tail(words)))

\* the words before the source file: flags of grun, closed by "--" or by
\* a source file that does not start with a dash
IsBeforeSource(words, source) ==
    \/ IsFlags(words) /\ source \in PlainWords
    \/ /\ words # <<>>
       /\ words[Len(words)] = Terminator
       /\ IsFlags(SubSeq(words, 1, Len(words) - 1))

\* C16: the binary runs with exactly the words of the command line that
\* follow the source file, in their order and as they are written; the
\* source file and the flags of grun before it are not among them.
C16_ArgumentForwarding ==
    pc = "running" =>
        \E i \in 1..Len(osArgs) :
            /\ IsBeforeSource(SubSeq(osArgs, 1, i - 1), osArgs[i])
            /\ argv[1] = osArgs[i]
            /\ spawnArgs = SubSeq(osArgs, i + 1, Len(osArgs))

\* words that look like flags follow the source file and are passed on
C16_FlagLikeArgumentsForwarded ==
    /\ pc = "running"
    /\ osArgs = <<"--cache-dir=c", "s.go", "-v">>
    /\ flagCacheDir = "c"
    /\ spawnArgs = <<"-v">>

EnsureStep == pc = "sourceChecked" /\ pc' # "sourceChecked"

\* C18: when ensureCacheDir has returned without error the cache directory
\* exists; on a directory that exists it succeeds and changes no file;
\* when the directory is not there and cannot be made, the invocation ends
\* with exit code 1 and a message, ensureCacheDir being its only call.
C18_EnsureCacheDir ==
    /\ [][(EnsureStep /\ pc' = "cacheDirEnsured") => cacheDirExists']_vars
    /\ [][(EnsureStep /\ cacheDirExists)
             => (pc' = "cacheDirEnsured" /\ UNCHANGED fsVars)]_vars
    /\ [][(EnsureStep /\ ~cacheDirExists') =>
             /\ pc' = "exited" /\ exitCode' = 1
             /\ stderr' = <<"Error creating cache directory">>
             /\ steps' = <<"ensureCacheDir">>]_vars
    /\ []((pc = "exited" /\ stderr = <<"Error creating cache directory">>)
             => steps = <<"ensureCacheDir">>)

\* ensureCacheDir has succeeded on the directory an earlier invocation made
C18_EnsuredAgain ==
    /\ pc = "cacheDirEnsured" /\ built /\ cacheDirExists
    /\ steps = <<"ensureCacheDir">>

\* a name without its extension, that is without its last dot and what
\* follows it
WithoutExtension(name) ==
    IF \E i \in 1..Len(name) : name[i] = "."
    THEN SubSeq(name, 1,
                (CHOOSE i \in 1..Len(name) :
                    name[i] = "." /\ \A j \in (i + 1)..Len(name) : name[j] # ".") - 1)
    ELSE name

\* a name without the three bytes ".go" at its end, if it ends with them
WithoutDotGo(name) ==
    IF Len(name) >= 3 /\ SubSeq(name, Len(name) - 2, Len(name)) = <<".", "g", "o">>
    THEN SubSeq(name, 1, Len(name) - 3)
    ELSE name

\* C19 as stated: the cache path is the cache directory and the file name
\* <base name without its extension>-<first 16 digits of the digest of the
\* absolute path>, whatever the extension.
C19_NameStripsAnyExtension ==
    \A k \in keys :
        k.path = [dir |-> cacheDir,
                  name |-> WithoutExtension(Base(k.sourceFile))
                           \o <<"-">> \o HashStrOf(k)]

\* C19, amended: the cache path is the cache directory and the file name
\* <base name>-<first 16 digits of the digest of the absolute path>, where
\* the base name of the source argument loses a final ".go" and keeps any
\* other extension.
C19_NameStripsDotGoOnly ==
    \A k \in keys :
        /\ Len(HashStrOf(k)) = 16
        /\ k.path = [dir |-> cacheDir,
                     name |-> WithoutDotGo(Base(k.sourceFile))
                              \o <<"-">> \o HashStrOf(k)]

\* the entries of s.go and of s.sh: "s" and "s.sh" before the digest
C19_GoStrippedShKept ==
    \E k, l \in keys :
        /\ Base(k.sourceFile) = NameGo
        /\ SubSeq(k.path.name, 1, 2) = <<"s", "-">>
        /\ Base(l.sourceFile) = NameSh
        /\ SubSeq(l.path.name, 1, 5) = <<"s", ".", "s", "h", "-">>

\* a step of main, as opposed to a step of the environment
CoreStep == pc' # pc

\* C20: no step of main removes the cached binary or the binary a build
\* wrote elsewhere: one that exists before the step exists after it; and
\* a step of main creates or rewrites one only as the end of a successful
\* go build that main started on a stale answer, the file being a binary
\* with the time of that build.
C20_CacheEntryLifecycle ==
    /\ [][(CoreStep /\ bin.st = "ok") => bin'.st = "ok"]_vars
    /\ [][(CoreStep /\ altBin) => altBin']_vars
    /\ [][(CoreStep /\ (bin' # bin \/ altBin' # altBin)) =>
             /\ pc = "compiling" /\ pc' = "built"
             /\ needsCompile /\ buildErr' = NoErr
             /\ bin' # bin => bin' = [st |-> "ok", mtime |-> clock]]_vars

\* a rebuild of a stale binary has failed, and the binary is still there
C20_KeptAfterFailedRebuild ==
    /\ pc = "exited" /\ buildErr.kind = "build"
    /\ built /\ needsCompile
    /\ bin.st = "ok"

\* the source text has a line terminator
HasNewline(data) == \E k \in 1..Len(data) : data[k] = "\n"

\* compileGoFile has written the stripped copy and the go tool is running
Stripped == pc = "compiling" /\ tmpPath # NoTmp /\ tmpWritten.made

\* C22: when the source text has no line terminator, the temporary file
\* that createTempFileWithoutShebang writes without an error is empty, the
\* whole text being discarded
C22_NoTerminatorDiscardsAll ==
    (Stripped /\ ~HasNewline(src.data)) => tmpWritten.data = <<>>

\* C23: when the source text has a line terminator, the temporary file
\* holds exactly the bytes that follow the first one: the source is its
\* first line, the terminator and then the temporary file's text
C23_RestAfterFirstNewline ==
    (Stripped /\ HasNewline(src.data)) =>
        \E k \in 1..Len(src.data) :
            /\ src.data[k] = "\n"
            /\ \A j \in 1..(k - 1) : src.data[j] # "\n"
            /\ src.data = SubSeq(src.data, 1, k) \o tmpWritten.data

\* a directive, a blank line and code: only the directive is removed
C23_OnlyFirstLineRemoved ==
    /\ Stripped
    /\ src.data = <<"#", "!", "\n", "\n">>
    /\ tmpWritten.data = <<"\n">>

\* the source text starts with the two bytes of a directive
StartsWithDirective(data) == Len(data) >= 2 /\ data[1] = "#" /\ data[2] = "!"

\* C24: hasShebang is true exactly for a text of two bytes or more that
\* starts with '#' and '!'; a shorter text gives false and no error; and
\* compileGoFile makes and compiles a stripped copy exactly when it is true
C24_DirectiveDetection ==
    /\ pc = "compiling" =>
          /\ (tmpPath # NoTmp) = StartsWithDirective(src.data)
          /\ tmpWritten.made = StartsWithDirective(src.data)
          /\ (cmd.file = "temp") = StartsWithDirective(src.data)
    /\ buildErr.kind = "temp" => StartsWithDirective(src.data)
    /\ Len(src.data) < 2 => buildErr.kind \notin {"shebang", "temp"}

\* the single byte '#' is compiled as it is
C24_SingleHash ==
    /\ pc = "compiling"
    /\ src.data = <<"#">>
    /\ tmpPath = NoTmp
    /\ cmd.file = "source"

\* the directory dir is root or lies below it
IsUnder(dir, root) == Len(root) <= Len(dir) /\ SubSeq(dir, 1, Len(root)) = root

\* no step of main changes the source file, go.mod or go.sum
InputsReadOnly == [][CoreStep => UNCHANGED <<src, gomod, gosum>>]_vars

\* C21 as stated: no step of an invocation writes, renames or deletes the
\* source file or a manifest, and the stripped temporary file is made
\* outside the source's directory tree
C21_ReadOnlyInputsTempOutsideTree ==
    /\ InputsReadOnly
    /\ [](tmpWritten.made => ~IsUnder(tmpWritten.dir, SourceDir))

\* C21: no step of an invocation writes, renames or deletes the source file
\* or a manifest, and the stripped temporary file is made in the system
\* temp directory, which $TMPDIR names: outside the source's directory tree
\* whenever that directory is
C21_ReadOnlyInputsTempInTempDir ==
    /\ InputsReadOnly
    /\ [](tmpWritten.made =>
            /\ tmpWritten.dir = (IF envTmpDir = <<>> THEN <<NameTmp>> ELSE envTmpDir)
            /\ (~IsUnder(TempDir(envTmpDir), SourceDir)
                    => ~IsUnder(tmpWritten.dir, SourceDir)))

\* a module build of a stripped copy made in /tmp, the source and go.mod
\* being as they were at the start
C21_StrippedCopyInTmp ==
    /\ pc = "compiling"
    /\ tmpWritten.made
    /\ tmpWritten.dir = <<NameTmp>>
    /\ tmpWritten.data = <<"p">>
    /\ cmd.dir # ""
    /\ src = [st |-> "ok", mtime |-> 0, data |-> <<"#", "!", "g", "\n", "p">>]
    /\ gomod = [st |-> "ok", mtime |-> 0]

\* runBinary is reached only past a check that found the binary not stale
\* or past a build that ended without an error
C28_SpawnsOnlyAfterCheckOrBuild ==
    pc = "running" =>
        (~needsCompile \/ ("go build" \in Range(steps) /\ buildErr = NoErr))

\* C28: the binary an invocation runs is fresh: either its own staleness
\* check found the cached binary not stale, or its own build ended without
\* an error and wrote the binary that is run; a binary found stale is not
\* run as it was
C28_RunsFreshArtifact ==
    pc = "running" =>
        \/ ~needsCompile
        \/ /\ "go build" \in Range(steps)
           /\ buildErr = NoErr
           /\ OutputAtCachePath(cmd)

\* C29: a build that succeeds leaves the binary at the cache path that the
\* staleness check examined and that runBinary spawns, whatever the cache
\* directory, the working directory and the build command
C29_ArtifactAtCachePath ==
    [][(pc = "compiling" /\ pc' = "built")
          => (bin' = [st |-> "ok", mtime |-> clock] /\ ~altBin')]_vars

\* where the go tool writes to the cache path that main uses, a change of
\* another file alone is not seen by the staleness check
C30_WhenOutputPathAgrees ==
    [][(/\ CheckStep
        /\ BuiltEarlier
        /\ changed = {"sibling"}
        /\ Stat(gomod).err = "nil"
        /\ ~HasShebang(src.data)
        /\ OutputPathAgrees)
          => (~needsCompile' /\ bin.st = "ok")]_vars

\* C30: after a successful module build of a source without a directive,
\* when nothing but another file of the source's directory has changed,
\* the next staleness check finds the cached binary, does not ask for a
\* build, and the binary built before is the one to be run
C30_OtherFilesNotConsidered ==
    [][(/\ CheckStep
        /\ BuiltEarlier
        /\ changed = {"sibling"}
        /\ Stat(gomod).err = "nil"
        /\ ~HasShebang(src.data))
          => (~needsCompile' /\ bin.st = "ok")]_vars

\* os.Stat of the file fails with an error other than not-found
Unexpected(f) == Stat(f).err \notin {"nil", "ENOENT"}

\* needsRecompile, past its first os.Stat, meets an unexpected error on one
\* of the files it stats, in the order in which it stats them
MeetsUnexpectedError ==
    \/ Unexpected(bin)
    \/ /\ bin.st = "ok"
       /\ \/ Unexpected(src)
          \/ /\ src.st = "ok"
             /\ src.mtime <= bin.mtime
             /\ \/ Unexpected(gomod)
                \/ /\ ~(gomod.st = "ok" /\ gomod.mtime > bin.mtime)
                   /\ Unexpected(gosum)

\* C25: an unexpected filesystem error met while statting the cached
\* binary, the source, go.mod or go.sum makes needsRecompile return an error
\* and the invocation end with exit code 1, with no build and no run
C25_StatErrorsAreFatal ==
    [][(pc = "binStatted" /\ pc' # pc /\ MeetsUnexpectedError)
          => (pc' = "exited" /\ exitCode' = 1)]_vars

\* C26: a cached binary that is absent when needsRecompile stats it, be it
\* removed between the two os.Stat calls of one check, makes the check
\* answer stale with no error
C26_AbsentArtifactIsStale ==
    [][(pc \in {"keyDerived", "binStatted"} /\ pc' # pc /\ bin.st = "absent")
          => (pc' = "staleChecked" /\ needsCompile')]_vars

\* an invocation is under way
Invoked == pc \notin {"idle", "exited"}

\* main waits in cmd.Run for the go tool or for the spawned binary
Waiting == pc \in {"compiling", "running"}

\* C27: termination: when the go tool and the spawned binary exit, every
\* invocation ends, done or failed; main waits nowhere but for those two
\* children: anywhere else it has a step to take, and while it waits it
\* has none
C27_Termination ==
    /\ Invoked ~> (pc = "exited")
    /\ []((Invoked /\ ~Waiting) => ENABLED <<MainStep>>_vars)
    /\ [](Waiting => ~ENABLED <<MainStep>>_vars)

\* an invocation that went through a build and a run has ended with the
\* exit code of the binary
C27_EndedAfterBuildAndRun ==
    /\ pc = "exited"
    /\ Range(steps) = {"ensureCacheDir", "getCachedBinaryPath", "needsRecompile",
                       "compileGoFile", "go build", "runBinary"}
    /\ childExit = 7
    /\ exitCode = 7

\* C31: go.sum takes part in the staleness check only: a go.sum newer than
\* the cached binary makes the check ask for a build, while the command
\* that compileGoFile runs, its working directory and the hint on failure
\* are decided by the existence of go.mod alone; so with go.sum and without
\* go.mod the build is that of a single file and its failure has the hint
C31_GoSumInStalenessOnly ==
    /\ [][(/\ pc = "binStatted"
            /\ pc' = "staleChecked"
            /\ gosum.st = "ok"
            /\ gosum.mtime > bin.mtime)
              => needsCompile']_vars
    /\ [][BuildStep =>
            LET module == gomod.st = "ok"
            IN  /\ hasGoMod' = module
                /\ (cmd'.dir = "srcdir") = module
                /\ (cmd'.dir = "") = ~module
                /\ (cmd'.file = "") = (module /\ ~HasShebang(src.data))
                /\ cmd'.explicit = (cmd'.file # "")]_vars
    /\ [][(pc = "compiling" /\ pc' = "exited")
              => buildErr'.hint = (gomod.st # "ok")]_vars

\* go.sum without go.mod: the binary is not older than the source, go.sum
\* is newer than the binary, and the build that followed, of the single
\* file in the inherited working directory, failed with the hint
C31_SumOnlyRebuildFailedWithHint ==
    /\ pc = "exited"
    /\ gosum.st = "ok"
    /\ gomod.st = "absent"
    /\ bin.st = "ok"
    /\ src.st = "ok"
    /\ src.mtime <= bin.mtime
    /\ gosum.mtime > bin.mtime
    /\ needsCompile
    /\ cmd = [file |-> "source", dir |-> "", explicit |-> TRUE]
    /\ buildErr = [kind |-> "build", hint |-> TRUE]
    /\ exitCode = 1

====
